---- MODULE Spec2Model ----
(***************************************************************************)
(* The request pipeline of WordPressClient (src/src/client/api.ts): rate   *)
(* limiting, the retry loop, error classification, the index.php fallback  *)
(* and response parsing, as a state machine over one client instance.      *)
(*                                                                         *)
(* A string is a sequence of tokens (words or fixed phrases); the code's   *)
(* String.includes(needle) is token membership and toLowerCase() maps each *)
(* token, so a message built by concatenation contains what its parts      *)
(* contain.  Time is Date.now() in milliseconds; it passes only while a    *)
(* call awaits (a fetch, a timer).                                         *)
(***************************************************************************)
EXTENDS Integers, Sequences, FiniteSets, TLC

\* ------------------------------------------------------------------ bounds
MaxCalls == 1        \* request() calls of a behaviour of Spec
MaxPacedCalls == 3   \* request() calls of a behaviour of SpecPaced
MaxOverlapCalls == 2 \* request() calls of a behaviour of SpecOverlap
MaxSessionCalls == 2 \* request() calls before the last of the caller's in SpecSession
MaxAuthCalls == 2    \* authenticate() calls of a behaviour of SpecSession
MaxComposedCalls == 4 \* calls on the ComposedWordPressClient in SpecComposed
StartTime == 5000    \* Date.now() when the client is constructed
FetchLatency == 1    \* the time a fetch takes to settle, in ms

\* ------------------------------------------------------- program constants
RateWindowMs == 60000        \* api.ts:194  60000 / rateLimit
BackoffUnitMs == 1000        \* api.ts:613  1000 * (attempt + 1)
RetryAfterMs == 60000        \* api.ts:728  Date.now() + 60000

\* ---------------------------------------------------------- configuration
RateLimits == {40}           \* cfg.security.rateLimit, requests per minute
MaxRetriesCfg == {1, 3}      \* options.maxRetries || cfg.wordpress.maxRetries
RetryOverrides == {0, 2}     \* options.retries; 0 stands for "not given"

None == "none"
Slots == {1, 2}

\* ------------------------------------------------------------------ strings
Lower(tok) ==
  CASE tok = "Timeout" -> "timeout"
    [] tok = "Network connection lost" -> "network connection lost"
    [] tok = "Gateway" -> "gateway"
    [] tok = "Headers" -> "headers"
    [] tok = "Request" -> "request"
    [] tok = "Sorry" -> "sorry"
    [] tok = "LOCALHOST" -> "localhost"
    [] OTHER -> tok

Includes(msg, needle) == \E i \in 1..Len(msg) : msg[i] = needle

LowerIncludes(msg, needle) == \E i \in 1..Len(msg) : Lower(msg[i]) = needle

\* -------------------------------------------------------------- request data
\* The shapes of `data` the code tells apart.
NullData == [kind |-> "null", isString |-> FALSE, isBuffer |-> FALSE,
             isFormData |-> FALSE, append |-> FALSE, getHeaders |-> FALSE,
             pipe |-> FALSE]
StringData == [NullData EXCEPT !.kind = "string", !.isString = TRUE]
BufferData == [NullData EXCEPT !.kind = "buffer", !.isBuffer = TRUE]
ObjectData == [NullData EXCEPT !.kind = "object"]
\* the form-data package's FormData: a stream with append() and getHeaders()
FormDataData == [NullData EXCEPT !.kind = "form-data", !.isFormData = TRUE,
                 !.append = TRUE, !.getHeaders = TRUE, !.pipe = TRUE]
\* a FormData of another implementation (the runtime's own): append() only
DuckFormData == [NullData EXCEPT !.kind = "duck-form", !.append = TRUE]
\* a readable stream: pipe() only
StreamData == [NullData EXCEPT !.kind = "stream", !.pipe = TRUE]

Truthy(data) == data.kind # "null"

isRetryableBody(data) ==
  IF ~Truthy(data) THEN TRUE
  ELSE IF data.isString \/ data.isBuffer THEN TRUE
  ELSE IF data.isFormData THEN FALSE
  ELSE IF data.pipe THEN FALSE
  ELSE TRUE

\* ----------------------------------------------------------------- endpoints
\* An endpoint is relative to apiUrl or an absolute URL; path is its segments.
PostsEndpoint == [abs |-> FALSE, path |-> <<"posts">>, query |-> <<"per_page=5">>]
MediaEndpoint == [abs |-> FALSE, path |-> <<"media">>, query |-> <<>>]
UsersMeEndpoint == [abs |-> FALSE, path |-> <<"users", "me">>, query |-> <<>>]
ExternalEndpoint == [abs |-> TRUE, path |-> <<"custom", "v1", "items">>, query |-> <<>>]

Origin == "https://site.example"
ApiPrefix == <<"wp-json", "wp", "v2">>

HasSegments(path, segs) ==
  \E i \in 0..(Len(path) - Len(segs)) :
     \A j \in 1..Len(segs) : path[i + j] = segs[j]

UnderApiPrefix(url) == HasSegments(url.path, ApiPrefix)
EndpointIncludesMedia(endpoint) == HasSegments(endpoint.path, <<"media">>)
EndpointIsAuthSensitive(endpoint) ==
  HasSegments(endpoint.path, <<"users", "me">>) \/ HasSegments(endpoint.path, <<"jwt-auth">>)

\* pathname.replace("/wp-json/wp/v2", ""): the first occurrence is cut out
StripPrefix(path) ==
  IF ~HasSegments(path, ApiPrefix) THEN path
  ELSE LET i == CHOOSE k \in 0..(Len(path) - 3) :
                  /\ \A j \in 1..3 : path[k + j] = ApiPrefix[j]
                  /\ \A m \in 0..(k - 1) : \E j \in 1..3 : path[m + j] # ApiPrefix[j]
       IN SubSeq(path, 1, i) \o SubSeq(path, i + 4, Len(path))

\* api.ts:770-777
FallbackUrl(url) ==
  [origin |-> url.origin,
   path |-> <<"index.php">>,
   query |-> <<"rest_route=">> \o <<"wp", "v2">> \o StripPrefix(url.path) \o url.query]

\* ------------------------------------------------------------------- errors
\* A thrown value: its class (kind), its name, its message, the HTTP status
\* it carries (0: none), the authentication method it names (""; none);
\* isError: it is an Error instance; isString: it is a string.
MkError(kind, name, message, status) ==
  [kind |-> kind, name |-> name, message |-> message, status |-> status,
   resetTime |-> 0, method |-> "", isError |-> TRUE, isString |-> FALSE]

PlainError(message) == MkError("Error", "Error", message, 0)

WordPressAPIError(message, status) ==
  MkError("WordPressAPIError", "WordPressAPIError", message, status)

AuthenticationError(message, method) ==
  [MkError("AuthenticationError", "AuthenticationError", message, 401) EXCEPT !.method = method]

RateLimitError(message, resetTime) ==
  [MkError("RateLimitError", "RateLimitError", message, 429) EXCEPT !.resetTime = resetTime]

\* What a fetch can reject with.
AbortThrown == MkError("Error", "AbortError", <<"This operation was aborted">>, 0)
FetchFailedThrown == MkError("Error", "TypeError", <<"fetch failed">>, 0)
HangUpThrown == MkError("Error", "Error", <<"socket hang up">>, 0)
ResetThrown == MkError("Error", "Error", <<"read", "ECONNRESET">>, 0)
\* "request to https://site.example/wp-json/wp/v2/posts/403 failed, reason: connect ECONNREFUSED"
RefusedThrown == MkError("Error", "FetchError", <<"request to", "posts", "403", "failed, reason:", "connect ECONNREFUSED">>, 0)
StringThrown ==
  [MkError("value", "", <<"boom">>, 0) EXCEPT !.isError = FALSE, !.isString = TRUE]
OtherThrown == [MkError("value", "", <<>>, 0) EXCEPT !.isError = FALSE]

Throws == {AbortThrown, FetchFailedThrown, HangUpThrown, ResetThrown,
           RefusedThrown, StringThrown, OtherThrown}

\* How normalizeRequestError classifies a thrown value (api.ts:658-669).
ThrownClass(error) ==
  IF error.isError /\ error.name = "AbortError" THEN "timeout"
  ELSE IF error.isError /\ (Includes(error.message, "socket hang up") \/ Includes(error.message, "ECONNRESET"))
       THEN "connection-lost"
  ELSE "generic"

normalizeRequestError(error) ==
  IF error.isError
  THEN IF error.name = "AbortError"
       THEN PlainError(<<"Request", "timeout", "after", "ms">>)
       ELSE IF Includes(error.message, "socket hang up") \/ Includes(error.message, "ECONNRESET")
            THEN PlainError(<<"Network connection lost", "during request:">> \o error.message)
            ELSE error
  ELSE PlainError(IF error.isString THEN error.message ELSE <<"Unknown error">>)

shouldRetryError(error) ==
  IF LowerIncludes(error.message, "401") \/ LowerIncludes(error.message, "403") THEN FALSE
  ELSE IF LowerIncludes(error.message, "timeout") THEN FALSE
  ELSE IF LowerIncludes(error.message, "network connection lost") THEN FALSE
  ELSE TRUE

\* ---------------------------------------------------------------- base URL
\* The base URL given to the constructor: kind is "empty" (no URL given),
\* "malformed" (new URL() throws a TypeError) or "url"; a host is a domain
\* name, an IPv4 address or an IPv6 address in brackets, as its labels; a path
\* is what follows each "/" of it (<<"blog", "">> is /blog/), and query and
\* fragment are "" when absent.
Name(labels) == [kind |-> "name", labels |-> labels]
IPv4(a, b, c, d) == [kind |-> "ipv4", labels |-> <<a, b, c, d>>]
IPv6(address) == [kind |-> "ipv6", labels |-> <<"[" \o address \o "]">>]

SiteHost == Name(<<"site", "example">>)
Url(scheme, host, path, query, fragment) ==
  [kind |-> "url", scheme |-> scheme, host |-> host, path |-> path,
   query |-> query, fragment |-> fragment]
SiteInput == Url("https", SiteHost, <<>>, "", "")
EmptyInput == [SiteInput EXCEPT !.kind = "empty"]
MalformedInput == [SiteInput EXCEPT !.kind = "malformed"]

RECURSIVE Join(_, _)
Join(seq, sep) ==
  IF seq = <<>> THEN ""
  ELSE IF Len(seq) = 1 THEN seq[1]
  ELSE seq[1] \o sep \o Join(Tail(seq), sep)

\* new URL(url): the host is lower-cased, an IPv6 address keeps its brackets
\* in hostname, and an absent path is "/".
ParseUrl(url) ==
  LET hostname == [i \in 1..Len(url.host.labels) |-> Lower(url.host.labels[i])] IN
  [protocol |-> url.scheme \o ":",
   hostname |-> hostname,
   host |-> Join(hostname, "."),
   pathname |-> IF url.path = <<>> THEN <<"">> ELSE url.path]

\* String.replace(/\/$/, ""): one "/" at the end is removed
StripSlash(path) ==
  IF path # <<>> /\ path[Len(path)] = "" THEN SubSeq(path, 1, Len(path) - 1) ELSE path

\* api.ts:258-270: the hosts refused in production
IsPrivateHostname(hostname) ==
  \/ hostname = <<"localhost">>
  \/ hostname = <<"127", "0", "0", "1">>
  \/ hostname = <<"::1">>
  \/ Len(hostname) >= 2 /\ hostname[1] = "10"
  \/ /\ Len(hostname) >= 3 /\ hostname[1] = "172"
     /\ hostname[2] \in {"16", "17", "18", "19", "20", "21", "22", "23",
                         "24", "25", "26", "27", "28", "29", "30", "31"}
  \/ Len(hostname) >= 3 /\ hostname[1] = "192" /\ hostname[2] = "168"

Accepted(value) == [ok |-> TRUE, value |-> value, error |-> PlainError(<<>>)]
Refused(error) == [ok |-> FALSE, value |-> [origin |-> "", path |-> <<>>], error |-> error]

\* api.ts:244-280
validateAndSanitizeUrl(url, isProduction) ==
  IF url.kind = "empty" THEN Refused(PlainError(<<"WordPress site URL is required">>))
  ELSE IF url.kind = "malformed" THEN Refused(PlainError(<<"Invalid WordPress site URL format">>))
  ELSE LET parsed == ParseUrl(url) IN
       IF parsed.protocol \notin {"http:", "https:"}
       THEN Refused(PlainError(<<"Only HTTP and HTTPS protocols are allowed">>))
       ELSE IF isProduction /\ IsPrivateHostname(parsed.hostname)
       THEN Refused(PlainError(<<"Private/localhost URLs not allowed in production">>))
       ELSE Accepted([origin |-> parsed.protocol \o "//" \o parsed.host,
                      path |-> StripSlash(parsed.pathname)])

\* api.ts:345-346: validateConfig removes one more "/" and derives apiUrl
BaseUrlOf(sanitized) == [sanitized EXCEPT !.path = StripSlash(@)]
ApiUrlOf(base) == [base EXCEPT !.path = @ \o ApiPrefix]

\* ---------------------------------------------------------------- responses
\* A response body: empty, text that is not JSON, or a JSON object with its
\* message and error members (<<>>: absent).
EmptyBody == [kind |-> "empty", text |-> <<>>, message |-> <<>>, error |-> <<>>]
TextBody(text) == [EmptyBody EXCEPT !.kind = "text", !.text = text]
JsonBody(message, error) == [EmptyBody EXCEPT !.kind = "json", !.message = message, !.error = error]

BeitraegePhrase == "Beitraege zu erstellen"

Bodies == {EmptyBody,
           TextBody(<<"upstream", "timeout">>),
           JsonBody(<<"Sorry">>, <<>>),
           JsonBody(<<>>, <<"Sorry">>),
           JsonBody(<<>>, <<>>),
           JsonBody(<<BeitraegePhrase>>, <<>>)}

Statuses == {200, 401, 403, 404, 429, 500, 504}

Ok(status) == status >= 200 /\ status <= 299

StatusText(status) ==
  CASE status = 200 -> <<"OK">>
    [] status = 401 -> <<"Unauthorized">>
    [] status = 403 -> <<"Forbidden">>
    [] status = 404 -> <<"Not Found">>
    [] status = 429 -> <<"Too Many Requests">>
    [] status = 500 -> <<"Internal Server Error">>
    [] status = 504 -> <<"Gateway", "Timeout">>
    [] OTHER -> <<>>

\* What the server may answer: a 2xx with an empty, a JSON or a non-JSON body,
\* or any other status with any body.
OkBodies == {EmptyBody, TextBody(<<"upstream", "timeout">>), JsonBody(<<"Sorry">>, <<>>)}
Responses == [status : {200}, body : OkBodies] \cup [status : Statuses \ {200}, body : Bodies]
FallbackResponses == [status : {200}, body : OkBodies] \cup [status : {404, 429, 500}, body : {EmptyBody}]

\* api.ts:716-724
ErrorMessage(response) ==
  LET b == response.body IN
  IF b.kind = "json"
  THEN IF b.message # <<>> THEN b.message
       ELSE IF b.error # <<>> THEN b.error
       ELSE <<"HTTP", ToString(response.status)>>
  ELSE IF b.kind = "text" THEN b.text
  ELSE <<"HTTP", ToString(response.status)>> \o StatusText(response.status)

\* The value request() returns for a 2xx body.
NullValue == [type |-> "null", of |-> EmptyBody]
ParsedValue(body) == [type |-> "json", of |-> body]
RawText(body) == [type |-> "text", of |-> body]

\* -------------------------------------------------------------------- state
VARIABLES
  now,              \* Date.now()
  construction,     \* the call of the constructor: its input and how it ended
  baseUrl,          \* this.baseUrl
  apiUrl,           \* this.apiUrl
  timeout,          \* this.timeout
  requestInterval,  \* this.requestInterval
  maxRetries,       \* this.maxRetries
  auth,             \* this.auth
  authenticated,    \* this.authenticated
  jwtToken,         \* this.jwtToken
  lastRequestTime,  \* this.lastRequestTime
  stats,            \* this._stats
  call,             \* the request() calls in progress, one per slot
  wire,             \* the last two attempts put on the wire
  authCall,         \* the authenticate() call in progress
  durations,        \* the sum of the durations of the calls that returned
  composed,         \* a ComposedWordPressClient and the calls made on it
  postTools         \* a PostTools object and the calls made on it

vars == <<now, construction, baseUrl, apiUrl, timeout, requestInterval, maxRetries, auth, authenticated, jwtToken,
          lastRequestTime, stats, call, wire, authCall, durations, composed, postTools>>

\* What the constructor sets and no method assigns.
config == <<construction, baseUrl, apiUrl, timeout, requestInterval, maxRetries, auth>>
session == <<authenticated, jwtToken, authCall>>
\* The objects of the other classes, which no method of WordPressClient touches.
apart == <<composed, postTools>>

\* this.auth: secret is the credential of the method (appPassword, password,
\* apiKey or nonce; "": not configured), jwtSecret is auth.secret.
AppPasswordAuth ==
  [method |-> "app-password", username |-> "admin", secret |-> "app-pass", jwtSecret |-> ""]
JwtAuth == [method |-> "jwt", username |-> "admin", secret |-> "pass", jwtSecret |-> "key"]

\* A value a condition takes as true: not null, undefined or "".
Undefined == "undefined"
TruthyToken(token) == token \notin {None, Undefined, ""}

\* api.ts:364-399: the authentication header of a request
addAuthHeaders(a, token) ==
  CASE a.method = "app-password" ->
         IF a.username # "" /\ a.secret # "" THEN <<"Basic", a.username, a.secret>> ELSE <<>>
    [] a.method = "basic" ->
         IF a.username # "" /\ a.secret # "" THEN <<"Basic", a.username, a.secret>> ELSE <<>>
    [] a.method = "jwt" -> IF TruthyToken(token) THEN <<"Bearer", token>> ELSE <<>>
    [] a.method = "api-key" -> IF a.secret # "" THEN <<"X-API-Key", a.secret>> ELSE <<>>
    [] a.method = "cookie" -> IF a.secret # "" THEN <<"X-WP-Nonce", a.secret>> ELSE <<>>
    [] OTHER -> <<>>

NoOutcome == [kind |-> "none", value |-> NullValue, error |-> PlainError(<<>>)]
Returned(value) == [kind |-> "value", value |-> value, error |-> PlainError(<<>>)]
Raised(error) == [kind |-> "error", value |-> NullValue, error |-> error]

NoResponse == [status |-> 0, body |-> EmptyBody]
Rejected == [status |-> -1, body |-> EmptyBody]
NoRequest == [url |-> [origin |-> "", path |-> <<>>, query |-> <<>>], method |-> "",
              headers |-> [contentType |-> "", authorization |-> <<>>],
              body |-> [encoding |-> "none", data |-> "null"]]

\* One request() call: its arguments, its locals, where it is suspended (pc),
\* how it ended (outcome), and a record of what it put on the wire.
IdleCall ==
  [pc |-> "idle", n |-> 0,
   method |-> "GET", endpoint |-> PostsEndpoint, data |-> NullData, retries |-> 0,
   authorization |-> <<>>, maxAttempts |-> 0, attempt |-> 0,
   lastError |-> PlainError(<<"Unknown error">>),
   errorMessage |-> <<>>,
   timer |-> 0, wakeAt |-> 0, rlRead |-> 0,
   outcome |-> NoOutcome,
   attempts |-> 0, fallbacks |-> 0, last |-> [status |-> 0, body |-> None, thrown |-> None],
   only5xx |-> TRUE, notFound |-> 0, restricted |-> 0,
   fallbackRequest |-> NoRequest, fallbackResponse |-> NoResponse,
   hitsAtStart |-> 0, okAtStart |-> 0, failedAtStart |-> 0]

InFlight(c) == call[c].pc \in {"rate-limit", "fetch", "fallback", "backoff"}
Ended(c) == call[c].pc \in {"returned", "raised"}

\* One authenticate() call: where it is suspended (pc: "probe" awaits the
\* request() in slot 1, "token" the fetch of the token endpoint), how it ended,
\* and a record of it: n numbers the calls, sent counts the HTTP requests it
\* sent, was and failuresAtStart are authenticated and authFailures when it
\* started, answer is what the token endpoint answered.
NoToken == [status |-> 0, body |-> [kind |-> "empty", token |-> Undefined]]
IdleAuth ==
  [pc |-> "idle", n |-> 0, outcome |-> NoOutcome, sent |-> 0, was |-> FALSE,
   failuresAtStart |-> 0, answer |-> NoToken]

\* this._stats.averageResponseTime is a fraction num / den in lowest terms.
Zero == [num |-> 0, den |-> 1]

\* An attempt on the wire: when it left (at), the slot (by) and the number (n)
\* of its call, and the lastRequestTime its rateLimit() read.
NoAttempt == [at |-> -1, by |-> 0, n |-> 0, read |-> -1]

\* The constructor call: pc is "none" before it, then "constructed" or "raised".
NoConstruction ==
  [pc |-> "none", url |-> EmptyInput, isProduction |-> FALSE, error |-> PlainError(<<>>)]
NoUrl == [origin |-> "", path |-> <<>>]

\* options.timeout || cfg.wordpress.timeout, in ms
Timeouts == {30000}

\* ------------------------------------------------ ComposedWordPressClient
\* part_001:96-99: a ComposedWordPressClient as constructed, with a request
\* handler that has an initialize() and a dispose() method or not; init is the
\* initialize() call in progress, last the last call of request() or of a
\* post method: its number n, the method (op), whether the validator accepted
\* the arguments (valid), initialized when it was called (was), and how it
\* ended; the rest counts the calls made on the dependencies.
NoError == PlainError(<<>>)
NewComposed(hasInitialize, hasDispose) ==
  [initialized |-> FALSE,
   handler |-> [initialize |-> hasInitialize, dispose |-> hasDispose],
   n |-> 0,
   init |-> [pc |-> "idle", was |-> FALSE, authResolved |-> FALSE],
   last |-> [n |-> 0, op |-> "none", valid |-> TRUE, was |-> FALSE,
             outcome |-> "none", error |-> NoError],
   authenticates |-> 0, handlerInits |-> 0, handled |-> 0, disposals |-> 0, disposed |-> 0]

\* --------------------------------------------------------------- PostTools
\* The params of a tool call: null, or an object with members that are
\* undefined when absent; site is a member the MCP framework adds.
NullParams == [isNull |-> TRUE, post_type |-> Undefined, page |-> Undefined,
               search |-> Undefined, status |-> <<Undefined>>, site |-> Undefined]
NoQuery == [page |-> Undefined, search |-> Undefined, status |-> <<>>]

\* A call of a handler: the tool and the handler, the params given, what the
\* list handler received (listed: it was called), and the function it ended
\* in (target) with the post type and the query it passed.
NoInvocation ==
  [tool |-> "none", handler |-> "none", given |-> NullParams,
   listed |-> FALSE, received |-> NullParams,
   target |-> "none", postType |-> Undefined, query |-> NoQuery, raised |-> FALSE]

\* A PostTools object: tools is what getTools() returned (pc "listed") or
\* nothing yet, invoked the last call of a handler of that list.
NewPostTools == [pc |-> "new", tools |-> <<>>, error |-> PlainError(<<>>), invoked |-> NoInvocation]

\* api.ts:154-218: the client as constructed from a configuration
NewClientState(rateLimits, retryCounts, auths) ==
  /\ now = StartTime
  /\ construction = [NoConstruction EXCEPT !.pc = "constructed", !.url = SiteInput]
  /\ baseUrl = BaseUrlOf(validateAndSanitizeUrl(SiteInput, FALSE).value)
  /\ apiUrl = ApiUrlOf(baseUrl)
  /\ timeout \in Timeouts
  /\ requestInterval \in {RateWindowMs \div r : r \in rateLimits}
  /\ maxRetries \in retryCounts
  /\ auth \in auths
  /\ authenticated = FALSE
  /\ jwtToken = None
  /\ lastRequestTime = 0
  /\ stats = [totalRequests |-> 0, successfulRequests |-> 0, failedRequests |-> 0,
              averageResponseTime |-> Zero, rateLimitHits |-> 0, authFailures |-> 0]
  /\ call = [c \in Slots |-> IdleCall]
  /\ wire = [prev |-> NoAttempt, last |-> NoAttempt]
  /\ authCall = IdleAuth
  /\ durations = 0

\* A WordPressClient as constructed, beside a ComposedWordPressClient and a
\* PostTools object on which nothing is called.
Constructed(rateLimits, retryCounts, auths) ==
  /\ NewClientState(rateLimits, retryCounts, auths)
  /\ composed = NewComposed(FALSE, FALSE)
  /\ postTools = NewPostTools

Init == Constructed(RateLimits, MaxRetriesCfg, {AppPasswordAuth})

\* ------------------------------------------------------------ one attempt
\* api.ts:537-538
ResolveUrl(endpoint) ==
  IF endpoint.abs
  THEN [origin |-> "https://other.example", path |-> endpoint.path, query |-> endpoint.query]
  ELSE [origin |-> apiUrl.origin, path |-> apiUrl.path \o endpoint.path, query |-> endpoint.query]

\* api.ts:626-656: the body and the content type attachRequestBody gives
attachRequestBody(data) ==
  IF data.isFormData \/ data.append
  THEN [contentType |-> IF data.getHeaders THEN "multipart/form-data" ELSE "",
        body |-> [encoding |-> "multipart", data |-> data.kind]]
  ELSE IF data.isBuffer \/ data.isString
  THEN [contentType |-> "application/json", body |-> [encoding |-> "raw", data |-> data.kind]]
  ELSE [contentType |-> "application/json", body |-> [encoding |-> "json", data |-> data.kind]]

\* api.ts:563-573: the fetch options of an attempt of call rec
FetchOptions(rec) ==
  LET attached == attachRequestBody(rec.data) IN
  IF Truthy(rec.data) /\ rec.method \in {"POST", "PUT", "PATCH"}
  THEN [url |-> ResolveUrl(rec.endpoint), method |-> rec.method,
        headers |-> [contentType |-> attached.contentType, authorization |-> rec.authorization],
        body |-> attached.body]
  ELSE [url |-> ResolveUrl(rec.endpoint), method |-> rec.method,
        headers |-> [contentType |-> "application/json", authorization |-> rec.authorization],
        body |-> [encoding |-> "none", data |-> "null"]]

\* The fallback sent without the attempt's body
FallbackOptions_NoBody(rec) ==
  [FetchOptions(rec) EXCEPT !.url = FallbackUrl(ResolveUrl(rec.endpoint)),
                            !.body = [encoding |-> "none", data |-> "null"]]

\* api.ts:784-788: the fallback is the attempt's request sent to the index.php URL
FallbackOptions(rec) == [FetchOptions(rec) EXCEPT !.url = FallbackUrl(ResolveUrl(rec.endpoint))]

\* api.ts:550-553
MaxAttempts(retries, data) ==
  LET configuredRetries == IF retries > 0 THEN retries
                           ELSE IF maxRetries # 0 THEN maxRetries ELSE 1
  IN IF isRetryableBody(data) THEN configuredRetries ELSE 1

\* The sleep of rateLimit() one millisecond short
RateLimitDelay_Short(elapsed) == requestInterval - elapsed - 1

\* api.ts:409: how long rateLimit() sleeps
RateLimitDelay(elapsed) == requestInterval - elapsed

\* A backoff that does not grow with the attempt
BackoffDelay_Flat(attempt) == BackoffUnitMs

\* api.ts:613: how long the loop sleeps before the next attempt
BackoffDelay(attempt) == BackoffUnitMs * (attempt + 1)

Max(a, b) == IF a >= b THEN a ELSE b

\* A timer fires no earlier than set, and timers fire in the order they are due.
TimerDue(c) ==
  \A o \in Slots \ {c} : call[o].pc \in {"rate-limit", "backoff"} => call[o].wakeAt >= call[c].wakeAt

\* The attempt leaves without the stamp of api.ts:413
Issue_NoStamp(c, rec, t, read) ==
  /\ lastRequestTime' = lastRequestTime
  /\ call' = [call EXCEPT ![c] = [rec EXCEPT !.pc = "fetch", !.attempts = @ + 1]]
  /\ wire' = [prev |-> wire.last, last |-> [at |-> t, by |-> c, n |-> rec.n, read |-> read]]

\* api.ts:413 and 578: the attempt leaves: lastRequestTime is stamped and the
\* fetch is issued.
Issue(c, rec, t, read) ==
  /\ lastRequestTime' = t
  /\ call' = [call EXCEPT ![c] = [rec EXCEPT !.pc = "fetch", !.attempts = @ + 1]]
  /\ wire' = [prev |-> wire.last, last |-> [at |-> t, by |-> c, n |-> rec.n, read |-> read]]

\* api.ts:557-578: the top of the loop at time t: rateLimit(), then the fetch
rateLimit(c, rec, t) ==
  LET timeSinceLastRequest == t - lastRequestTime IN
  IF timeSinceLastRequest < requestInterval
  THEN /\ call' = [call EXCEPT ![c] = [rec EXCEPT !.pc = "rate-limit",
                                                  !.wakeAt = t + RateLimitDelay(timeSinceLastRequest),
                                                  !.rlRead = lastRequestTime]]
       /\ UNCHANGED <<lastRequestTime, wire>>
  ELSE Issue(c, rec, t, lastRequestTime)

\* ------------------------------------------------------------ classification
\* api.ts:621-623: what request() throws after the loop
RequestFailed(maxAttempts, lastError) ==
  WordPressAPIError(<<"Request failed after", ToString(maxAttempts),
                      IF maxAttempts = 1 THEN "attempt:" ELSE "attempts:">>
                      \o lastError.message, 0)

\* Catch without the RateLimitError branch of api.ts:601-604
Catch_NoRateLimitBreak(rec, error, t) ==
  LET lastError == normalizeRequestError(error)
      shouldRetry == shouldRetryError(lastError) /\ rec.attempt < rec.maxAttempts - 1
  IN IF shouldRetry
     THEN [rec EXCEPT !.pc = "backoff", !.lastError = lastError,
                      !.wakeAt = t + BackoffDelay(rec.attempt)]
     ELSE [rec EXCEPT !.pc = "raised", !.lastError = lastError,
                      !.outcome = Raised(RequestFailed(rec.maxAttempts, lastError))]

\* Catch without the budget test of api.ts:608
Catch_NoBudget(rec, error, t) ==
  LET lastError == IF error.kind = "RateLimitError" THEN error
                   ELSE normalizeRequestError(error)
      shouldRetry == error.kind # "RateLimitError" /\ shouldRetryError(lastError)
  IN IF shouldRetry
     THEN [rec EXCEPT !.pc = "backoff", !.lastError = lastError,
                      !.wakeAt = t + BackoffDelay(rec.attempt)]
     ELSE [rec EXCEPT !.pc = "raised", !.lastError = lastError,
                      !.outcome = Raised(RequestFailed(rec.maxAttempts, lastError))]

\* api.ts:599-613 and 619-623: the catch block at time t, and the throw after
\* the loop when the loop is left
Catch(rec, error, t) ==
  LET lastError == IF error.kind = "RateLimitError" THEN error
                   ELSE normalizeRequestError(error)
      shouldRetry == /\ error.kind # "RateLimitError"
                     /\ shouldRetryError(lastError)
                     /\ rec.attempt < rec.maxAttempts - 1
  IN IF shouldRetry
     THEN [rec EXCEPT !.pc = "backoff", !.lastError = lastError,
                      !.wakeAt = t + BackoffDelay(rec.attempt)]
     ELSE [rec EXCEPT !.pc = "raised", !.lastError = lastError,
                      !.outcome = Raised(RequestFailed(rec.maxAttempts, lastError))]

\* api.ts:708-759: what a non-2xx response leads to: an error thrown into the
\* catch block (hit: rateLimitHits is incremented first) or the fallback request
handleErrorResponseWithFallback(rec, response, t) ==
  LET errorMessage == ErrorMessage(response)
      throw(e, hit) == [act |-> "throw", error |-> e, hit |-> hit]
  IN
  IF response.status = 429
  THEN throw(RateLimitError(errorMessage, t + RetryAfterMs), TRUE)
  ELSE IF /\ response.status = 403
          /\ EndpointIncludesMedia(rec.endpoint)
          /\ FetchOptions(rec).method = "POST"
  THEN throw(AuthenticationError(<<"Media upload blocked:", "Error:">> \o errorMessage
                                   \o <<"Common causes:", "W3 Total Cache">>,
                                 auth.method), FALSE)
  ELSE IF Includes(errorMessage, BeitraegePhrase) /\ EndpointIncludesMedia(rec.endpoint)
  THEN throw(AuthenticationError(<<"media upload restriction detected:">> \o errorMessage
                                   \o <<"blocking the upload">>,
                                 auth.method), FALSE)
  ELSE IF response.status = 404 /\ UnderApiPrefix(ResolveUrl(rec.endpoint))
  THEN [act |-> "fallback", error |-> WordPressAPIError(errorMessage, response.status),
        hit |-> FALSE]
  ELSE throw(WordPressAPIError(errorMessage, response.status), FALSE)

\* parseResponse without the empty-body case of api.ts:820-826
parseResponse_NoEmptyCase(rec, response) ==
  IF response.body.kind = "json"
  THEN [ok |-> TRUE, value |-> ParsedValue(response.body), error |-> PlainError(<<>>)]
  ELSE IF EndpointIsAuthSensitive(rec.endpoint)
  THEN [ok |-> FALSE, value |-> NullValue,
        error |-> WordPressAPIError(<<"Invalid JSON response:", "Unexpected end of JSON input">>, 0)]
  ELSE [ok |-> TRUE, value |-> RawText(response.body), error |-> PlainError(<<>>)]

\* api.ts:815-843: a 2xx response is returned as a value or thrown
parseResponse(rec, response) ==
  IF response.body.kind = "empty" THEN [ok |-> TRUE, value |-> NullValue, error |-> PlainError(<<>>)]
  ELSE IF response.body.kind = "json"
  THEN [ok |-> TRUE, value |-> ParsedValue(response.body), error |-> PlainError(<<>>)]
  ELSE IF EndpointIsAuthSensitive(rec.endpoint)
  THEN [ok |-> FALSE, value |-> NullValue,
        error |-> WordPressAPIError(<<"Invalid JSON response:", "Unexpected token">>, 0)]
  ELSE [ok |-> TRUE, value |-> RawText(response.body), error |-> PlainError(<<>>)]

\* api.ts:791-812: what the fallback response gives: a value, or undefined
FallbackResult(response) ==
  IF ~Ok(response.status) THEN [defined |-> FALSE, value |-> NullValue]
  ELSE IF response.body.kind = "empty" THEN [defined |-> TRUE, value |-> NullValue]
  ELSE IF response.body.kind = "json" THEN [defined |-> TRUE, value |-> ParsedValue(response.body)]
  ELSE [defined |-> FALSE, value |-> NullValue]

\* The media-restriction phrase in the error message of a media endpoint.
MediaRestriction(rec, response) ==
  Includes(ErrorMessage(response), BeitraegePhrase) /\ EndpointIncludesMedia(rec.endpoint)

\* The record of an attempt's outcome: last is the response status (0: the
\* fetch rejected) and the class of what fetch threw; only5xx says that every
\* attempt of the call that failed so far was answered 5xx; notFound counts
\* the attempts answered 404 on a URL under the REST prefix, restricted those
\* of them whose message is the media restriction.
Observe(rec, response, thrown) ==
  LET status == response.status
      is404 == status = 404 /\ UnderApiPrefix(ResolveUrl(rec.endpoint)) IN
  [rec EXCEPT !.last = [status |-> status,
                        body |-> IF status = 0 THEN None ELSE response.body.kind,
                        thrown |-> thrown],
              !.only5xx = @ /\ (Ok(status) \/ (status >= 500 /\ status <= 599)),
              !.notFound = IF is404 THEN @ + 1 ELSE @,
              !.restricted = IF is404 /\ MediaRestriction(rec, response) THEN @ + 1 ELSE @]

RECURSIVE GCD(_, _)
GCD(a, b) == IF b = 0 THEN a ELSE GCD(b, a % b)

LowestTerms(num, den) ==
  LET g == GCD(num, den) IN [num |-> num \div g, den |-> den \div g]

\* The running average with a weight one too high for the new duration
updateAverageResponseTime_Heavy(average, totalSuccessful, duration) ==
  LowestTerms(average.num * (totalSuccessful - 1) + 2 * duration * average.den,
              average.den * totalSuccessful)

\* api.ts:845-850: (average * (totalSuccessful - 1) + duration) / totalSuccessful
updateAverageResponseTime(average, totalSuccessful, duration) ==
  LowestTerms(average.num * (totalSuccessful - 1) + duration * average.den,
              average.den * totalSuccessful)

\* timer.end(): the time since startTimer() at the top of request()
Duration(rec, t) == t - rec.timer

\* The call returns value at time t: successfulRequests++ and the average of
\* parseResponse and of the fallback.
Succeed(c, rec, value, t) ==
  LET totalSuccessful == stats.successfulRequests + 1 IN
  /\ call' = [call EXCEPT ![c] = [rec EXCEPT !.pc = "returned", !.outcome = Returned(value)]]
  /\ stats' = [stats EXCEPT !.successfulRequests = totalSuccessful,
                            !.averageResponseTime =
                               updateAverageResponseTime(@, totalSuccessful, Duration(rec, t))]
  /\ durations' = durations + Duration(rec, t)

\* The catch block counting a failed request for every failed attempt
Fail_PerAttempt(c, rec, error, t, hit) ==
  /\ call' = [call EXCEPT ![c] = Catch(rec, error, t)]
  /\ stats' = [stats EXCEPT !.rateLimitHits = IF hit THEN @ + 1 ELSE @,
                            !.failedRequests = @ + 1]
  /\ UNCHANGED durations

\* An error reaches the catch block at time t; hit: a 429 was counted.
Fail(c, rec, error, t, hit) ==
  LET next == Catch(rec, error, t) IN
  /\ call' = [call EXCEPT ![c] = next]
  /\ stats' = [stats EXCEPT !.rateLimitHits = IF hit THEN @ + 1 ELSE @,
                            !.failedRequests = IF next.pc = "raised" THEN @ + 1 ELSE @]
  /\ UNCHANGED durations

\* ------------------------------------------------------------------ actions
\* request() without the count of api.ts:535
StartRequest_Uncounted(c, method, endpoint, data, retries) ==
  /\ ~InFlight(c)
  /\ stats' = stats
  /\ rateLimit(c, [IdleCall EXCEPT !.n = stats.totalRequests + 1, !.method = method, !.endpoint = endpoint, !.data = data,
                                   !.retries = retries, !.timer = now,
                                   !.authorization = addAuthHeaders(auth, jwtToken),
                                   !.maxAttempts = MaxAttempts(retries, data),
                                   !.hitsAtStart = stats.rateLimitHits,
                                   !.okAtStart = stats.successfulRequests,
                                   !.failedAtStart = stats.failedRequests], now)

\* request(method, endpoint, data, {retries}) up to its first await
StartRequest(c, method, endpoint, data, retries) ==
  /\ ~InFlight(c)
  /\ stats' = [stats EXCEPT !.totalRequests = @ + 1]
  /\ rateLimit(c, [IdleCall EXCEPT !.n = stats.totalRequests + 1, !.method = method, !.endpoint = endpoint, !.data = data,
                                   !.retries = retries, !.timer = now,
                                   !.authorization = addAuthHeaders(auth, jwtToken),
                                   !.maxAttempts = MaxAttempts(retries, data),
                                   !.hitsAtStart = stats.rateLimitHits,
                                   !.okAtStart = stats.successfulRequests,
                                   !.failedAtStart = stats.failedRequests], now)

\* request() clearing the token of the session on its way
Request_ForgetsToken(c, method, endpoint, data, retries) ==
  /\ StartRequest(c, method, endpoint, data, retries)
  /\ jwtToken' = None
  /\ UNCHANGED <<now, config, apart, authenticated, authCall, durations>>

Request(c, method, endpoint, data, retries) ==
  /\ StartRequest(c, method, endpoint, data, retries)
  /\ UNCHANGED <<now, config, apart, session, durations>>

\* the delay of rateLimit() is over: the attempt leaves
RateLimitWake(c) ==
  /\ call[c].pc = "rate-limit"
  /\ TimerDue(c)
  /\ now' = Max(now, call[c].wakeAt)
  /\ Issue(c, call[c], now', call[c].rlRead)
  /\ UNCHANGED <<config, apart, session, stats, durations>>

\* the fetch of an attempt resolves with a response, d ms later
FetchResolves(c, response, d) ==
  /\ call[c].pc = "fetch"
  /\ now' = now + d
  /\ LET rec == Observe(call[c], response, None) IN
     IF Ok(response.status)
     THEN LET parsed == parseResponse(rec, response) IN
          IF parsed.ok THEN Succeed(c, rec, parsed.value, now')
          ELSE Fail(c, rec, parsed.error, now', FALSE)
     ELSE LET handled == handleErrorResponseWithFallback(rec, response, now') IN
          IF handled.act = "fallback"
          THEN /\ call' = [call EXCEPT ![c] = [rec EXCEPT !.pc = "fallback",
                                                        !.errorMessage = handled.error.message,
                                                        !.fallbacks = @ + 1,
                                                        !.fallbackRequest = FallbackOptions(rec),
                                                        !.fallbackResponse = NoResponse]]
               /\ UNCHANGED <<stats, durations>>
          ELSE Fail(c, rec, handled.error, now', handled.hit)
  /\ UNCHANGED <<config, apart, session, lastRequestTime, wire>>

\* the fetch of an attempt rejects
FetchRejects(c, thrown, d) ==
  /\ call[c].pc = "fetch"
  /\ now' = now + d
  /\ Fail(c, Observe(call[c], NoResponse, ThrownClass(thrown)), thrown, now', FALSE)
  /\ UNCHANGED <<config, apart, session, lastRequestTime, wire>>

\* the fallback fetch resolves
FallbackResolves(c, response, d) ==
  /\ call[c].pc = "fallback"
  /\ now' = now + d
  /\ LET rec == [call[c] EXCEPT !.fallbackResponse = response]
         result == FallbackResult(response) IN
     IF result.defined THEN Succeed(c, rec, result.value, now')
     ELSE Fail(c, rec, WordPressAPIError(rec.errorMessage, 404), now', FALSE)
  /\ UNCHANGED <<config, apart, session, lastRequestTime, wire>>

\* the fallback fetch rejects
FallbackRejects(c, thrown, d) ==
  /\ call[c].pc = "fallback"
  /\ now' = now + d
  /\ Fail(c, [call[c] EXCEPT !.fallbackResponse = Rejected],
          WordPressAPIError(call[c].errorMessage, 404), now', FALSE)
  /\ UNCHANGED <<config, apart, session, lastRequestTime, wire>>

\* the backoff delay is over: the next iteration of the loop
BackoffWake(c) ==
  /\ call[c].pc = "backoff"
  /\ TimerDue(c)
  /\ now' = Max(now, call[c].wakeAt)
  /\ rateLimit(c, [call[c] EXCEPT !.attempt = @ + 1], now')
  /\ UNCHANGED <<config, apart, session, stats, durations>>

\* ------------------------------------------------------------ authentication
TrueValue == [type |-> "true", of |-> EmptyBody]

\* authenticate() returning true without setting this.authenticated
AuthReturns_Unset(started, token) ==
  /\ jwtToken' = token
  /\ authCall' = [started EXCEPT !.pc = "returned", !.outcome = Returned(TrueValue)]
  /\ UNCHANGED <<stats, authenticated>>

\* authenticate() returns true: this.authenticated = true
AuthReturns(started, token) ==
  /\ authenticated' = TRUE
  /\ jwtToken' = token
  /\ authCall' = [started EXCEPT !.pc = "returned", !.outcome = Returned(TrueValue)]
  /\ UNCHANGED stats

\* The catch block of authenticate() without the count
AuthRaises_Uncounted(started, error) ==
  /\ authCall' = [started EXCEPT !.pc = "raised", !.outcome = Raised(error)]
  /\ UNCHANGED <<stats, authenticated, jwtToken>>

\* api.ts:442-446: the catch block of authenticate(): authFailures++, rethrow
AuthRaises(started, error) ==
  /\ authCall' = [started EXCEPT !.pc = "raised", !.outcome = Raised(error)]
  /\ stats' = [stats EXCEPT !.authFailures = @ + 1]
  /\ UNCHANGED <<authenticated, jwtToken>>

\* api.ts:453-454 and 480
HasCredentials(a) ==
  IF a.method = "jwt" THEN a.jwtSecret # "" /\ a.username # "" /\ a.secret # ""
  ELSE a.username # "" /\ a.secret # ""

\* api.ts:423-447: authenticate() up to its first await, or to its end
Authenticate ==
  LET method == auth.method
      started == [IdleAuth EXCEPT !.n = authCall.n + 1, !.was = authenticated,
                                  !.failuresAtStart = stats.authFailures]
      untouched == UNCHANGED <<now, config, apart, lastRequestTime, call, wire, durations>>
  IN
  /\ authCall.pc \notin {"probe", "token"}
  /\ CASE method \in {"app-password", "basic"} ->
            IF HasCredentials(auth)
            THEN /\ StartRequest(1, "GET", UsersMeEndpoint, NullData, 0)
                 /\ authCall' = [started EXCEPT !.pc = "probe"]
                 /\ UNCHANGED <<now, config, apart, authenticated, jwtToken, durations>>
            ELSE /\ AuthRaises(started, AuthenticationError(
                        <<"Username and", "password", "are required for", method, "authentication">>,
                        method))
                 /\ untouched
       [] method = "jwt" ->
            IF HasCredentials(auth)
            THEN /\ authCall' = [started EXCEPT !.pc = "token", !.sent = 1]
                 /\ UNCHANGED <<authenticated, jwtToken, stats>>
                 /\ untouched
            ELSE /\ AuthRaises(started, AuthenticationError(
                        <<"JWT secret, username, and password are required">>, method))
                 /\ untouched
       [] method = "cookie" ->
            /\ IF auth.secret # "" THEN AuthReturns(started, jwtToken)
               ELSE AuthRaises(started, AuthenticationError(
                        <<"Nonce is required for cookie authentication">>, method))
            /\ untouched
       [] method = "api-key" -> AuthReturns(started, jwtToken) /\ untouched
       [] OTHER ->
            /\ AuthRaises(started, PlainError(<<"Unsupported authentication method:", method>>))
            /\ untouched

\* api.ts:463-473: the request() of authenticateWithBasic has settled
ProbeSettles ==
  /\ authCall.pc = "probe"
  /\ Ended(1)
  /\ LET settled == [authCall EXCEPT !.sent = call[1].attempts + call[1].fallbacks] IN
     IF call[1].pc = "returned" THEN AuthReturns(settled, jwtToken)
     ELSE AuthRaises(settled, AuthenticationError(
              <<"Basic authentication failed:">> \o call[1].outcome.error.message, auth.method))
  /\ UNCHANGED <<now, config, apart, lastRequestTime, call, wire, durations>>

\* What the token endpoint answers: a JSON object with or without a token
\* member, a body that is not JSON, or a status that is not 2xx.
TokenBody(token) == [kind |-> "json", token |-> token]
NotJson == [kind |-> "text", token |-> Undefined]

\* api.ts:487-510: the fetch of the token endpoint resolves, d ms later
TokenResolves(response, d) ==
  /\ authCall.pc = "token"
  /\ now' = now + d
  /\ LET answered == [authCall EXCEPT !.answer = response] IN
     IF ~Ok(response.status)
     THEN AuthRaises(answered, AuthenticationError(
              <<"JWT authentication failed:", "HTTP", ToString(response.status)>>
                \o StatusText(response.status), auth.method))
     ELSE IF response.body.kind # "json"
     THEN AuthRaises(answered, AuthenticationError(
              <<"JWT authentication failed:", "Unexpected token">>, auth.method))
     ELSE AuthReturns(answered, response.body.token)
  /\ UNCHANGED <<config, apart, lastRequestTime, call, wire, durations>>

\* api.ts:508-510: the fetch of the token endpoint rejects
TokenRejects(thrown, d) ==
  /\ authCall.pc = "token"
  /\ now' = now + d
  /\ AuthRaises(authCall, AuthenticationError(
         <<"JWT authentication failed:">> \o thrown.message, auth.method))
  /\ UNCHANGED <<config, apart, lastRequestTime, call, wire, durations>>

\* Disconnect with the counters cleared
disconnect_ResetStats ==
  /\ authenticated' = FALSE
  /\ jwtToken' = None
  /\ stats' = [stats EXCEPT !.totalRequests = 0, !.successfulRequests = 0,
                            !.failedRequests = 0, !.rateLimitHits = 0, !.authFailures = 0]
  /\ UNCHANGED <<now, config, apart, lastRequestTime, call, wire, authCall, durations>>

\* api.ts:355-359
disconnect ==
  /\ authenticated' = FALSE
  /\ jwtToken' = None
  /\ UNCHANGED <<now, config, apart, lastRequestTime, stats, call, wire, authCall, durations>>

\* ---------------------------------------------------------- specifications
\* The requests a caller makes.
Requests ==
  [method : {"GET"}, endpoint : {PostsEndpoint, UsersMeEndpoint, ExternalEndpoint},
   data : {NullData}, retries : {0}]
  \cup [method : {"POST"}, endpoint : {MediaEndpoint},
        data : {ObjectData, StringData, FormDataData, DuckFormData, StreamData},
        retries : {0}]
  \cup [method : {"GET"}, endpoint : {PostsEndpoint}, data : {NullData}, retries : RetryOverrides]
  \cup [method : {"POST"}, endpoint : {MediaEndpoint}, data : {FormDataData, DuckFormData},
        retries : RetryOverrides]

Latencies == {FetchLatency}

NoneInFlight == \A c \in Slots : ~InFlight(c)

\* One caller that awaits its request().
Call ==
  \E r \in Requests :
    /\ NoneInFlight
    /\ stats.totalRequests < MaxCalls
    /\ Request(1, r.method, r.endpoint, r.data, r.retries)

Wake == \E c \in Slots : RateLimitWake(c)
Respond == \E c \in Slots, response \in Responses, d \in Latencies : FetchResolves(c, response, d)
Reject == \E c \in Slots, thrown \in Throws, d \in Latencies : FetchRejects(c, thrown, d)
FallbackRespond ==
  \E c \in Slots, response \in FallbackResponses, d \in Latencies : FallbackResolves(c, response, d)
FallbackReject == \E c \in Slots, thrown \in Throws, d \in Latencies : FallbackRejects(c, thrown, d)
Retry == \E c \in Slots : BackoffWake(c)

Next == Call \/ Wake \/ Respond \/ Reject \/ FallbackRespond \/ FallbackReject \/ Retry

Spec == Init /\ [][Next]_vars


\* ------------------------------------------------- several calls on a client
\* The pacing of calls is studied with fewer kinds of request and of answer,
\* and with fetches that take any time up to FetchLatency.
FewRequests == [method : {"GET"}, endpoint : {PostsEndpoint}, data : {NullData}, retries : {0}]
FewResponses ==
  {[status |-> 200, body |-> JsonBody(<<"Sorry">>, <<>>)],
   [status |-> 404, body |-> EmptyBody],
   [status |-> 429, body |-> EmptyBody],
   [status |-> 500, body |-> JsonBody(<<"Sorry">>, <<>>)]}
FewFallbackResponses ==
  {[status |-> 200, body |-> JsonBody(<<"Sorry">>, <<>>)], [status |-> 500, body |-> EmptyBody]}
FewThrows == {FetchFailedThrown, AbortThrown}
FewLatencies == {FetchLatency}

InitFew == Constructed(RateLimits, {2}, {AppPasswordAuth})

\* The caller lets time pass between two calls.
Pauses == {700}
Pause(d) ==
  /\ NoneInFlight
  /\ now - lastRequestTime < requestInterval
  /\ now' = now + d
  /\ UNCHANGED <<config, apart, session, lastRequestTime, stats, call, wire, durations>>

PacedCall ==
  \E r \in FewRequests :
    /\ NoneInFlight
    /\ stats.totalRequests < MaxPacedCalls
    /\ Request(1, r.method, r.endpoint, r.data, r.retries)

CallerPauses == \E d \in Pauses : Pause(d)
FewRespond ==
  \E c \in Slots, response \in FewResponses, d \in FewLatencies : FetchResolves(c, response, d)
FewReject == \E c \in Slots, thrown \in FewThrows, d \in FewLatencies : FetchRejects(c, thrown, d)
FewFallbackRespond ==
  \E c \in Slots, response \in FewFallbackResponses, d \in FewLatencies :
    FallbackResolves(c, response, d)
FewFallbackReject ==
  \E c \in Slots, thrown \in FewThrows, d \in FewLatencies : FallbackRejects(c, thrown, d)

\* One caller that awaits each request() before the next.
NextPaced ==
  \/ PacedCall \/ CallerPauses \/ Wake \/ FewRespond \/ FewReject
  \/ FewFallbackRespond \/ FewFallbackReject \/ Retry

SpecPaced == InitFew /\ [][NextPaced]_vars

\* One call of any kind, where what the call awaits happens: a timer that was
\* set fires, and a fetch resolves, rejects or is aborted by its timeout.
LiveResponses == FewResponses \cup {[status |-> 200, body |-> TextBody(<<"upstream", "timeout">>)]}
LiveRespond ==
  \E c \in Slots, response \in LiveResponses, d \in FewLatencies : FetchResolves(c, response, d)

NextLive ==
  \/ Call \/ Wake \/ LiveRespond \/ FewReject
  \/ FewFallbackRespond \/ FewFallbackReject \/ Retry

Fairness ==
  /\ WF_vars(Wake)
  /\ WF_vars(Retry)
  /\ WF_vars(LiveRespond \/ FewReject)
  /\ WF_vars(FewFallbackRespond \/ FewFallbackReject)

SpecLive == Init /\ [][NextLive]_vars /\ Fairness

\* Callers that do not wait for each other: a call starts in any free slot.
\* The answers are those that end or repeat an attempt without a fallback.
OverlapResponses == {r \in FewResponses : r.status # 404}
OverlapThrows == {FetchFailedThrown}

OverlappingCall ==
  \E c \in Slots, r \in FewRequests :
    /\ stats.totalRequests < MaxOverlapCalls
    /\ Request(c, r.method, r.endpoint, r.data, r.retries)

OverlapRespond ==
  \E c \in Slots, response \in OverlapResponses, d \in FewLatencies : FetchResolves(c, response, d)
OverlapReject ==
  \E c \in Slots, thrown \in OverlapThrows, d \in FewLatencies : FetchRejects(c, thrown, d)

NextOverlap == OverlappingCall \/ Wake \/ OverlapRespond \/ OverlapReject \/ Retry

SpecOverlap == InitFew /\ [][NextOverlap]_vars

\* -------------------------------------------------- a client and its session
\* request(), authenticate() and disconnect() in any order on a client of any
\* authentication method, each call with one attempt.
BasicAuth == [AppPasswordAuth EXCEPT !.method = "basic", !.secret = "pass"]
ApiKeyAuth == [AppPasswordAuth EXCEPT !.method = "api-key", !.username = "", !.secret = "key"]
CookieAuth == [AppPasswordAuth EXCEPT !.method = "cookie", !.username = "", !.secret = "nonce"]
OAuthAuth == [AppPasswordAuth EXCEPT !.method = "oauth", !.username = "", !.secret = "key"]
Unconfigured(a) == [a EXCEPT !.secret = ""]

SessionAuths ==
  {AppPasswordAuth, Unconfigured(AppPasswordAuth), BasicAuth, JwtAuth, Unconfigured(JwtAuth),
   ApiKeyAuth, Unconfigured(ApiKeyAuth), CookieAuth, Unconfigured(CookieAuth), OAuthAuth}

SessionResponses ==
  {[status |-> 200, body |-> JsonBody(<<"Sorry">>, <<>>)],
   [status |-> 200, body |-> TextBody(<<"upstream", "timeout">>)],
   [status |-> 401, body |-> JsonBody(<<"Sorry">>, <<>>)]}
TokenResponses ==
  {[status |-> 200, body |-> TokenBody("abc")],
   [status |-> 200, body |-> TokenBody("xyz")],
   [status |-> 200, body |-> TokenBody(Undefined)],
   [status |-> 200, body |-> NotJson],
   [status |-> 403, body |-> NotJson]}

InitSession == Constructed(RateLimits, {1}, SessionAuths)

SessionCall ==
  \E r \in FewRequests :
    /\ stats.totalRequests < MaxSessionCalls
    /\ Request(2, r.method, r.endpoint, r.data, r.retries)

SessionAuthenticate == authCall.n < MaxAuthCalls /\ Authenticate
SessionRespond ==
  \E c \in Slots, response \in SessionResponses, d \in FewLatencies : FetchResolves(c, response, d)
SessionReject ==
  \E c \in Slots, thrown \in OverlapThrows, d \in FewLatencies : FetchRejects(c, thrown, d)
TokenRespond == \E response \in TokenResponses, d \in FewLatencies : TokenResolves(response, d)
TokenReject == \E thrown \in OverlapThrows, d \in FewLatencies : TokenRejects(thrown, d)

NextSession ==
  \/ SessionCall \/ SessionAuthenticate \/ Wake \/ SessionRespond \/ SessionReject
  \/ ProbeSettles \/ TokenRespond \/ TokenReject \/ disconnect

SpecSession == InitSession /\ [][NextSession]_vars

\* ------------------------------------------------- the constructor and after
\* new WordPressClient({baseUrl, auth}) in production or not, then one
\* request(), one authenticate() and disconnect() in any order.
NoAuth == [method |-> "", username |-> "", secret |-> "", jwtSecret |-> ""]

InitUrl ==
  /\ now = StartTime
  /\ construction = NoConstruction
  /\ baseUrl = NoUrl
  /\ apiUrl = NoUrl
  /\ timeout = 0
  /\ requestInterval = 0
  /\ maxRetries = 0
  /\ auth = NoAuth
  /\ authenticated = FALSE
  /\ jwtToken = None
  /\ lastRequestTime = 0
  /\ stats = [totalRequests |-> 0, successfulRequests |-> 0, failedRequests |-> 0,
              averageResponseTime |-> Zero, rateLimitHits |-> 0, authFailures |-> 0]
  /\ call = [c \in Slots |-> IdleCall]
  /\ wire = [prev |-> NoAttempt, last |-> NoAttempt]
  /\ authCall = IdleAuth
  /\ durations = 0
  /\ composed = NewComposed(FALSE, FALSE)
  /\ postTools = NewPostTools

\* api.ts:154-218: the constructor throws what validateAndSanitizeUrl throws,
\* before it assigns anything, or sets the configuration.
Construct(url, isProduction, a) ==
  /\ construction.pc = "none"
  /\ LET checked == validateAndSanitizeUrl(url, isProduction)
         called == [NoConstruction EXCEPT !.url = url, !.isProduction = isProduction] IN
     IF checked.ok
     THEN /\ construction' = [called EXCEPT !.pc = "constructed"]
          /\ baseUrl' = BaseUrlOf(checked.value)
          /\ apiUrl' = ApiUrlOf(baseUrl')
          /\ timeout' \in Timeouts
          /\ requestInterval' \in {RateWindowMs \div r : r \in RateLimits}
          /\ maxRetries' = 1
          /\ auth' = a
     ELSE /\ construction' = [called EXCEPT !.pc = "raised", !.error = checked.error]
          /\ UNCHANGED <<baseUrl, apiUrl, timeout, requestInterval, maxRetries, auth>>
  /\ UNCHANGED <<now, session, lastRequestTime, stats, call, wire, durations, apart>>

\* The hosts, the paths and the rest of the base URLs given.
Hosts ==
  {SiteHost, Name(<<"localhost">>), Name(<<"LOCALHOST">>), IPv6("::1"),
   IPv4("127", "0", "0", "1"), IPv4("127", "0", "0", "2"), IPv4("10", "1", "2", "3"),
   IPv4("172", "16", "0", "1"), IPv4("172", "31", "0", "1"), IPv4("172", "32", "0", "1"),
   IPv4("192", "168", "1", "1"), IPv4("8", "8", "8", "8")}
Paths == {<<>>, <<"">>, <<"", "">>, <<"blog">>, <<"blog", "">>, <<"blog", "", "">>, <<"blog", "", "", "">>}
Urls ==
  {Url(scheme, host, <<>>, "", "") : scheme \in {"http", "https", "ftp"}, host \in Hosts}
  \cup {Url("https", SiteHost, path, query, fragment) :
          path \in Paths, query \in {"", "per_page=5"}, fragment \in {"", "top"}}
  \cup {EmptyInput, MalformedInput}

IsConstructed == construction.pc = "constructed"

NewClient == \E url \in Urls, isProduction \in BOOLEAN : Construct(url, isProduction, AppPasswordAuth)
UrlCall ==
  \E r \in FewRequests :
    /\ IsConstructed
    /\ call[2].pc = "idle"
    /\ Request(2, r.method, r.endpoint, r.data, r.retries)
UrlAuthenticate == IsConstructed /\ authCall.pc = "idle" /\ Authenticate
UrlDisconnect == IsConstructed /\ disconnect

NextUrl ==
  \/ NewClient \/ UrlCall \/ UrlAuthenticate \/ UrlDisconnect
  \/ Wake \/ OverlapRespond \/ OverlapReject \/ ProbeSettles

SpecUrl == InitUrl /\ [][NextUrl]_vars

\* ------------------------------------------- ComposedWordPressClient: calls
\* The WordPressClient, which no method of the other classes touches here.
wordpressClient == <<now, config, session, lastRequestTime, stats, call, wire, durations>>

NotInitializedError ==
  PlainError(<<"ComposedWordPressClient not initialized.", "Call initialize() first.">>)
ValidationError == PlainError(<<"validation failed">>)

\* ensureInitialized letting every call through
ensureInitialized_Lax(initialized) == TRUE

\* part_001:216-220: ensureInitialized() returns (TRUE) or throws (FALSE)
ensureInitialized(initialized) == initialized

\* part_001:130-133 and 163-198: request() and the post methods
Methods == {"request", "getPosts", "getPost", "createPost", "updatePost", "deletePost"}
\* part_001:171, 179, 187, 195: the methods that call the validator first
Validating == {"getPost", "createPost", "updatePost", "deletePost"}

\* part_001:130-133, 163-198: a call of request() or of a post method; valid:
\* the validator returns rather than throws.
ComposedCall(op, valid) ==
  LET called == [n |-> composed.n + 1, op |-> op, valid |-> valid,
                 was |-> composed.initialized, outcome |-> "none", error |-> NoError] IN
  /\ composed.n < MaxComposedCalls
  /\ composed' =
       IF op \in Validating /\ ~valid
       THEN [composed EXCEPT !.n = @ + 1,
                             !.last = [called EXCEPT !.outcome = "raised", !.error = ValidationError]]
       ELSE IF ~ensureInitialized(composed.initialized)
       THEN [composed EXCEPT !.n = @ + 1,
                             !.last = [called EXCEPT !.outcome = "raised", !.error = NotInitializedError]]
       ELSE [composed EXCEPT !.n = @ + 1, !.handled = @ + 1,
                             !.last = [called EXCEPT !.outcome = "delegated"]]
  /\ UNCHANGED <<wordpressClient, postTools>>

\* part_001:104-112: initialize() up to its first await, or to its return
ComposedInitialize ==
  /\ composed.n < MaxComposedCalls
  /\ composed.init.pc \notin {"authenticate", "handler-init"}
  /\ composed' =
       IF composed.initialized
       THEN [composed EXCEPT !.n = @ + 1,
                             !.init = [pc |-> "returned", was |-> TRUE, authResolved |-> FALSE]]
       ELSE [composed EXCEPT !.n = @ + 1, !.authenticates = @ + 1,
                             !.init = [pc |-> "authenticate", was |-> FALSE, authResolved |-> FALSE]]
  /\ UNCHANGED <<wordpressClient, postTools>>

\* part_001:122-124: the catch block: handleError() throws or returns
Caught(rethrows) ==
  composed' = [composed EXCEPT !.init.pc = IF rethrows THEN "raised" ELSE "returned"]

\* part_001:120-121: the end of the try block
Initialized == composed' = [composed EXCEPT !.initialized = TRUE, !.init.pc = "returned"]

\* part_001:110-121: authProvider.authenticate() has settled
AuthenticateSettles(resolved, rethrows) ==
  /\ composed.init.pc = "authenticate"
  /\ IF ~resolved THEN Caught(rethrows)
     ELSE IF composed.handler.initialize
     THEN composed' = [composed EXCEPT !.init.pc = "handler-init", !.init.authResolved = TRUE,
                                       !.handlerInits = @ + 1]
     ELSE composed' = [composed EXCEPT !.initialized = TRUE, !.init.pc = "returned",
                                       !.init.authResolved = TRUE]
  /\ UNCHANGED <<wordpressClient, postTools>>

\* part_001:114-121: requestHandler.initialize() has settled
HandlerInitSettles(resolved, rethrows) ==
  /\ composed.init.pc = "handler-init"
  /\ IF resolved THEN Initialized ELSE Caught(rethrows)
  /\ UNCHANGED <<wordpressClient, postTools>>

\* part_001:203-211
dispose ==
  /\ composed.n < MaxComposedCalls
  /\ composed' = [composed EXCEPT !.n = @ + 1, !.disposals = @ + 1,
                                  !.disposed = IF composed.handler.dispose THEN @ + 1 ELSE @,
                                  !.initialized = FALSE]
  /\ UNCHANGED <<wordpressClient, postTools>>

InitComposed ==
  /\ NewClientState(RateLimits, {1}, {AppPasswordAuth})
  /\ \E hasInitialize \in BOOLEAN, hasDispose \in BOOLEAN :
       composed = NewComposed(hasInitialize, hasDispose)
  /\ postTools = NewPostTools

ComposedMethod == \E op \in Methods, valid \in BOOLEAN : ComposedCall(op, valid)
AuthProviderSettles == \E resolved \in BOOLEAN, rethrows \in BOOLEAN : AuthenticateSettles(resolved, rethrows)
HandlerSettles == \E resolved \in BOOLEAN, rethrows \in BOOLEAN : HandlerInitSettles(resolved, rethrows)

NextComposed ==
  \/ ComposedInitialize \/ AuthProviderSettles \/ HandlerSettles \/ ComposedMethod \/ dispose

SpecComposed == InitComposed /\ [][NextComposed]_vars

\* ---------------------------------------------------------- PostTools: calls
\* PostToolDefinitions.ts:312-321: the names of the definitions, in order
postToolDefinitions ==
  <<"wp_list_posts", "wp_list_verhalen", "wp_list_reviews", "wp_get_post",
    "wp_create_post", "wp_update_post", "wp_delete_post", "wp_get_post_revisions">>

Bound(handler) == [ok |-> TRUE, handler |-> handler, error |-> PlainError(<<>>)]
UnknownTool(toolName) ==
  [ok |-> FALSE, handler |-> "none", error |-> PlainError(<<"Unknown tool:", toolName>>)]

\* getHandlerForTool without the case of wp_list_reviews
getHandlerForTool_NoReviews(toolName) ==
  CASE toolName = "wp_list_posts" -> Bound("handleListPosts")
    [] toolName = "wp_list_verhalen" -> Bound("handleListVerhalen")
    [] toolName = "wp_get_post" -> Bound("handleGetPost")
    [] toolName = "wp_create_post" -> Bound("handleCreatePost")
    [] toolName = "wp_update_post" -> Bound("handleUpdatePost")
    [] toolName = "wp_delete_post" -> Bound("handleDeletePost")
    [] toolName = "wp_get_post_revisions" -> Bound("handleGetPostRevisions")
    [] OTHER -> UnknownTool(toolName)

\* part_000:90-111
getHandlerForTool(toolName) ==
  CASE toolName = "wp_list_posts" -> Bound("handleListPosts")
    [] toolName = "wp_list_verhalen" -> Bound("handleListVerhalen")
    [] toolName = "wp_list_reviews" -> Bound("handleListReviews")
    [] toolName = "wp_get_post" -> Bound("handleGetPost")
    [] toolName = "wp_create_post" -> Bound("handleCreatePost")
    [] toolName = "wp_update_post" -> Bound("handleUpdatePost")
    [] toolName = "wp_delete_post" -> Bound("handleDeletePost")
    [] toolName = "wp_get_post_revisions" -> Bound("handleGetPostRevisions")
    [] OTHER -> UnknownTool(toolName)

\* part_000:73-78: map() over the definitions; the first throw ends it
getTools ==
  LET bound == [i \in 1..Len(postToolDefinitions) |-> getHandlerForTool(postToolDefinitions[i])]
      failed == {i \in 1..Len(postToolDefinitions) : ~bound[i].ok} IN
  IF failed = {}
  THEN [ok |-> TRUE,
        tools |-> [i \in 1..Len(postToolDefinitions) |->
                     [name |-> postToolDefinitions[i], handler |-> bound[i].handler]],
        error |-> PlainError(<<>>)]
  ELSE [ok |-> FALSE, tools |-> <<>>,
        error |-> bound[CHOOSE i \in failed : \A j \in failed : i <= j].error]

\* part_000:127-129: if (!params) params = {}
OrEmpty(params) == IF params.isNull THEN [NullParams EXCEPT !.isNull = FALSE, !.status = <<Undefined>>] ELSE params

\* part_000:122-165: handleListPosts(client, params), called by inv
handleListPosts(inv, given) ==
  LET params == OrEmpty(given)
      postType == IF TruthyToken(params.post_type) THEN params.post_type ELSE Undefined
      queryParams == [page |-> params.page, search |-> params.search,
                      status |-> IF params.status = <<Undefined>> THEN <<>> ELSE params.status]
  IN [inv EXCEPT !.listed = TRUE, !.received = given,
                 !.target = IF postType # Undefined THEN "client.getPosts" ELSE "handleListPosts",
                 !.postType = postType, !.query = queryParams]

\* part_000:170-177
handleListVerhalen(inv, given) ==
  handleListPosts(inv, [OrEmpty(given) EXCEPT !.post_type = "verhalen"])

\* part_000:182-189
handleListReviews(inv, given) ==
  handleListPosts(inv, [OrEmpty(given) EXCEPT !.post_type = "review"])

\* part_000:198-216: handleGetPost; reading a member of null throws
handleGetPost(inv, given) ==
  IF given.isNull THEN [inv EXCEPT !.raised = TRUE]
  ELSE IF TruthyToken(given.post_type)
  THEN [inv EXCEPT !.target = "client.getPost", !.postType = given.post_type]
  ELSE [inv EXCEPT !.target = "handleGetPost"]

\* part_000:225-313: the other handlers pass the members they know to the
\* function of PostHandlers; reading a member of null throws
handleOther(inv, given, function) ==
  IF given.isNull THEN [inv EXCEPT !.raised = TRUE] ELSE [inv EXCEPT !.target = function]

\* A handler of the list, called with params
CallHandler(tool, given) ==
  LET inv == [NoInvocation EXCEPT !.tool = tool.name, !.handler = tool.handler, !.given = given] IN
  CASE tool.handler = "handleListPosts" -> handleListPosts(inv, given)
    [] tool.handler = "handleListVerhalen" -> handleListVerhalen(inv, given)
    [] tool.handler = "handleListReviews" -> handleListReviews(inv, given)
    [] tool.handler = "handleGetPost" -> handleGetPost(inv, given)
    [] tool.handler = "handleCreatePost" -> handleOther(inv, given, "handleCreatePost")
    [] tool.handler = "handleUpdatePost" -> handleOther(inv, given, "handleUpdatePost")
    [] tool.handler = "handleDeletePost" -> handleOther(inv, given, "handleDeletePost")
    [] OTHER -> handleOther(inv, given, "handleGetPostRevisions")

\* The params callers pass.
PostTypes == {Undefined, "", "posts", "verhalen", "review"}
ToolParams ==
  {NullParams} \cup
  [isNull : {FALSE}, post_type : PostTypes, page : {Undefined, "2"}, search : {Undefined, "zaak"},
   status : {<<Undefined>>, <<"publish">>, <<"publish", "draft">>}, site : {Undefined, "site1"}]

\* postTools.getTools()
GetTools ==
  /\ postTools.pc = "new"
  /\ LET got == getTools IN
     postTools' = IF got.ok THEN [postTools EXCEPT !.pc = "listed", !.tools = got.tools]
                  ELSE [postTools EXCEPT !.pc = "raised", !.error = got.error]
  /\ UNCHANGED <<wordpressClient, composed>>

\* tools[i].handler(client, params)
Invoke(i, given) ==
  /\ postTools.pc = "listed"
  /\ i \in DOMAIN postTools.tools
  /\ postTools' = [postTools EXCEPT !.invoked = CallHandler(postTools.tools[i], given)]
  /\ UNCHANGED <<wordpressClient, composed>>

InitTools == Constructed(RateLimits, {1}, {AppPasswordAuth})
InvokeTool == \E i \in 1..Len(postToolDefinitions), given \in ToolParams : Invoke(i, given)
NextTools == GetTools \/ InvokeTool
SpecTools == InitTools /\ [][NextTools]_vars

\* ===================================================================== claims
Is5xx(status) == status >= 500 /\ status <= 599

IsSuffix(suffix, msg) ==
  /\ Len(suffix) <= Len(msg)
  /\ SubSeq(msg, Len(msg) - Len(suffix) + 1, Len(msg)) = suffix

\* C1: once an attempt of a call has been answered 429, the call has ended with
\* that attempt (it is neither waiting, fetching nor in the fallback, so no
\* further HTTP attempt follows, whatever budget remains), and rateLimitHits is
\* one more than when the call started.
C1_NoAttemptAfter429 ==
  \A c \in Slots :
    call[c].last.status = 429 =>
      /\ call[c].pc = "raised"
      /\ stats.rateLimitHits = call[c].hitsAtStart + 1

\* C1 witness: a 429 on the second attempt of a call with a budget of three.
C1_Witness ==
  \E c \in Slots :
    /\ call[c].last.status = 429
    /\ call[c].attempts = 2
    /\ call[c].maxAttempts = 3
    /\ call[c].pc = "raised"

MediaUploadPost(rec) == EndpointIncludesMedia(rec.endpoint) /\ rec.method = "POST"

\* C2: the error a call raises has the kind its classification assigned: a
\* RateLimitError with a retry-after estimate after a 429, an
\* AuthenticationError after a 403 on a media-upload POST, and an API error
\* carrying the status after any other non-2xx response.
C2_RaisedErrorKind ==
  \A c \in Slots :
    call[c].pc = "raised" =>
      LET e == call[c].outcome.error
          st == call[c].last.status IN
      /\ st = 429 => (e.kind = "RateLimitError" /\ e.resetTime > 0)
      /\ (st = 403 /\ MediaUploadPost(call[c])) => e.kind = "AuthenticationError"
      /\ (st > 0 /\ ~Ok(st) /\ st # 429 /\ ~(st = 403 /\ MediaUploadPost(call[c])))
           => (e.kind = "WordPressAPIError" /\ e.status = st)

\* C3: a call whose body is sent as multipart form-data, or is stream-like,
\* makes exactly one HTTP attempt, whatever maxRetries and the retries override.
C3_NonReplayableOneAttempt ==
  \A c \in Slots :
    (FetchOptions(call[c]).body.encoding = "multipart" \/ call[c].data.pipe)
      => call[c].attempts <= 1

\* C4: for a replayable body, while every failed attempt was answered 5xx: a
\* 5xx answer ends the call only when the budget is used up, and a 2xx answer
\* makes the call return (so the number of attempts is the position of the
\* first 2xx), for every 5xx status and every error body.  The 2xx bodies of
\* the users/me endpoint that are not JSON are the subject of C18.
C4_TransientRetried ==
  \A c \in Slots :
    (isRetryableBody(call[c].data) /\ call[c].only5xx) =>
      /\ (call[c].pc = "raised" /\ Is5xx(call[c].last.status))
           => call[c].attempts = call[c].maxAttempts
      /\ (Ok(call[c].last.status) /\ ~EndpointIsAuthSensitive(call[c].endpoint))
           => (call[c].pc = "returned" /\ call[c].outcome.kind = "value")

\* C5 as claimed: a call that was answered 404 on a URL under the REST prefix
\* has sent exactly one fallback request.
C5_OneFallbackPerCall ==
  \A c \in Slots : call[c].notFound >= 1 => call[c].fallbacks = 1

\* C5 as amended: each attempt answered 404 on a URL under the REST prefix
\* sends one fallback request, unless the message is the media restriction on
\* a media endpoint; the fallback goes to index.php with the attempt's method,
\* headers and body and with the query parameters of the attempt's URL.
C5_OneFallbackPer404 ==
  \A c \in Slots :
    /\ call[c].fallbacks = call[c].notFound - call[c].restricted
    /\ call[c].fallbacks >= 1 =>
         LET sent == call[c].fallbackRequest
             attempt == FetchOptions(call[c]) IN
         /\ sent.url.path = <<"index.php">>
         /\ sent.url.origin = attempt.url.origin
         /\ sent.url.query[1] = "rest_route="
         /\ IsSuffix(attempt.url.query, sent.url.query)
         /\ sent.method = attempt.method
         /\ sent.headers = attempt.headers
         /\ sent.body = attempt.body

\* C5 witness: a call that has sent two fallback requests, the second with a body.
C5_Witness ==
  \E c \in Slots :
    /\ call[c].fallbacks = 2
    /\ call[c].pc = "fallback"
    /\ call[c].fallbackRequest.body.encoding # "none"

\* C6: the fallback's outcome decides the call: after a 2xx fallback the call
\* has returned the fallback's parsed body (null for an empty body) with
\* successfulRequests one higher and failedRequests unchanged; after a failed
\* fallback the call returns no value, and the error it raises carries the
\* 404's message.
C6_FallbackDecides ==
  \A c \in Slots :
    LET fr == call[c].fallbackResponse IN
    /\ Ok(fr.status) =>
         /\ call[c].pc = "returned"
         /\ call[c].outcome.value =
              (IF fr.body.kind = "empty" THEN NullValue ELSE ParsedValue(fr.body))
         /\ stats.successfulRequests = call[c].okAtStart + 1
         /\ stats.failedRequests = call[c].failedAtStart
    /\ (fr.status # 0 /\ ~Ok(fr.status)) =>
         /\ call[c].pc # "returned"
         /\ call[c].pc = "raised" =>
              IsSuffix(call[c].errorMessage, call[c].outcome.error.message)

\* C7: a thrown error classified as timeout or connection loss ends the call
\* with that attempt; after any other thrown error the call ends only when the
\* attempt budget is used up.
C7_ThrownRetryPolicy ==
  \A c \in Slots :
    /\ call[c].last.thrown \in {"timeout", "connection-lost"} => call[c].pc = "raised"
    /\ (call[c].last.thrown = "generic" /\ call[c].pc = "raised")
         => call[c].attempts = call[c].maxAttempts

\* C8: a 401 or 403 answer ends the call with that attempt, whatever the
\* response body and whatever budget remains.
C8_PermissionNotRetried ==
  \A c \in Slots : call[c].last.status \in {401, 403} => call[c].pc = "raised"

\* C9: for a caller that awaits each call, every attempt leaves at least
\* requestInterval after the attempt before it, retries and the attempts of
\* later calls included.
C9_SequentialSpacing ==
  wire.prev.at >= 0 => wire.last.at - wire.prev.at >= requestInterval

\* C9 witness: the first attempt of a later call leaves exactly
\* requestInterval after the last attempt of the call before it.
C9_Witness ==
  /\ wire.prev.at >= 0
  /\ wire.last.n > wire.prev.n
  /\ wire.last.at - wire.prev.at = requestInterval

\* C10: with calls that overlap, each attempt leaves at least requestInterval
\* after the lastRequestTime its own rateLimit() read, and lastRequestTime is
\* the time the latest attempt left (the last writer wins); the spacing
\* between the attempts of two calls is not kept (the witness).
C10_SpacingFromOwnRead ==
  /\ wire.last.at >= 0 =>
       /\ wire.last.at - wire.last.read >= requestInterval
       /\ lastRequestTime = wire.last.at
  /\ wire.prev.at >= 0 => wire.prev.at - wire.prev.read >= requestInterval

\* C10 witness: two calls in flight whose rateLimit() read the same
\* lastRequestTime, and whose attempts left less than requestInterval apart.
C10_Witness ==
  /\ wire.prev.at >= 0
  /\ wire.prev.by # wire.last.by
  /\ InFlight(wire.prev.by) /\ InFlight(wire.last.by)
  /\ call[wire.prev.by].n = wire.prev.n /\ call[wire.last.by].n = wire.last.n
  /\ wire.prev.read = wire.last.read
  /\ wire.last.at - wire.prev.at < requestInterval

C12_CountersNeverDecrease ==
  [][/\ stats'.totalRequests >= stats.totalRequests
     /\ stats'.successfulRequests >= stats.successfulRequests
     /\ stats'.failedRequests >= stats.failedRequests
     /\ stats'.rateLimitHits >= stats.rateLimitHits
     /\ stats'.authFailures >= stats.authFailures]_vars

\* C12 witness: after a failed and a successful authenticate() the client was
\* disconnected, and the counters are what the calls left.
C12_Witness ==
  /\ authCall.n = 2
  /\ authCall.pc = "returned"
  /\ ~authenticated
  /\ stats.authFailures = 1
  /\ stats.totalRequests >= 2
  /\ stats.failedRequests >= 1

\* C13: the error a call raises carries the message of the last observed error
\* and the number of attempts the call made.
C13_RaisedMessageCountsAttempts ==
  \A c \in Slots :
    call[c].pc = "raised" =>
      call[c].outcome.error.message =
        <<"Request failed after", ToString(call[c].attempts),
          IF call[c].attempts = 1 THEN "attempt:" ELSE "attempts:">>
          \o call[c].lastError.message

\* The sum of 1000 * (i + 1) for i = 0..k-2
RECURSIVE BackoffSum(_)
BackoffSum(k) == IF k <= 1 THEN 0 ELSE BackoffUnitMs * (k - 1) + BackoffSum(k - 1)

AuthEnds == authCall' # authCall /\ authCall'.pc \in {"returned", "raised"}

\* C15: for app-password and basic, authenticate() with credentials starts
\* request('GET', 'users/me'); it returns true, with authenticated = true,
\* exactly when that request returned; otherwise (no credentials, or the
\* request raised) it raises an AuthenticationError naming the method, counts
\* one authFailure and leaves authenticated as it was.
C15_BasicProbe ==
  [][auth.method \in {"app-password", "basic"} =>
       /\ authCall'.pc = "probe" /\ authCall.pc # "probe" =>
            /\ HasCredentials(auth)
            /\ call'[1].method = "GET" /\ call'[1].endpoint = UsersMeEndpoint
            /\ stats'.totalRequests = stats.totalRequests + 1
       /\ AuthEnds =>
            LET probed == authCall.pc = "probe" /\ call[1].pc = "returned" IN
            /\ authCall'.pc = "returned" <=> probed
            /\ authCall'.pc = "returned" =>
                 /\ authenticated'
                 /\ stats'.authFailures = stats.authFailures
            /\ authCall'.pc = "raised" =>
                 /\ authCall'.outcome.error.kind = "AuthenticationError"
                 /\ authCall'.outcome.error.method = auth.method
                 /\ stats'.authFailures = stats.authFailures + 1
                 /\ authenticated' = authenticated]_vars

\* C15 witness: a basic authenticate() raised after its probe was sent and failed.
C15_Witness ==
  /\ auth.method = "basic"
  /\ authCall.pc = "raised"
  /\ authCall.sent >= 1
  /\ call[1].pc = "raised"
  /\ call[1].endpoint = UsersMeEndpoint
  /\ stats.authFailures = authCall.failuresAtStart + 1

\* C16: for the jwt method, an authenticate() that returns true has stored the
\* token the token endpoint returned and set authenticated; a token response
\* that is not 2xx raises an AuthenticationError and stores no token; and a
\* request() issued while authenticated (after a successful authenticate(),
\* before disconnect()) carries Authorization: Bearer <the stored token>, one
\* issued while not authenticated carries no Authorization header.
C16_JwtBearer ==
  [][auth.method = "jwt" =>
       /\ (AuthEnds /\ authCall'.pc = "returned") =>
            /\ Ok(authCall'.answer.status)
            /\ jwtToken' = authCall'.answer.body.token
            /\ authenticated'
       /\ (AuthEnds /\ authCall'.answer.status # 0 /\ ~Ok(authCall'.answer.status)) =>
            /\ authCall'.pc = "raised"
            /\ authCall'.outcome.error.kind = "AuthenticationError"
            /\ jwtToken' = jwtToken
       /\ \A c \in Slots :
            call'[c].n # call[c].n =>
              call'[c].authorization =
                (IF authenticated THEN <<"Bearer", jwtToken>> ELSE <<>>)]_vars

\* C17: for api-key, cookie and any unrecognized method authenticate() ends
\* without an await and without an HTTP request: api-key returns true with
\* authenticated = true, key or no key; cookie does so exactly when a nonce is
\* configured and otherwise raises an AuthenticationError; an unrecognized
\* method raises a plain configuration error; a raise leaves authenticated as
\* it was.
C17_NoRoundTrip ==
  [][auth.method \notin {"app-password", "basic", "jwt"} =>
       /\ authCall'.pc \notin {"probe", "token"}
       /\ AuthEnds =>
            /\ authCall'.sent = 0
            /\ wire' = wire /\ call' = call
            /\ stats'.totalRequests = stats.totalRequests
            /\ auth.method = "api-key" => authCall'.pc = "returned"
            /\ auth.method = "cookie" => (authCall'.pc = "returned" <=> auth.secret # "")
            /\ auth.method \notin {"api-key", "cookie"} =>
                 /\ authCall'.pc = "raised"
                 /\ authCall'.outcome.error.kind = "Error"
            /\ authCall'.pc = "returned" => authenticated'
            /\ authCall'.pc = "raised" =>
                 /\ authenticated' = authenticated
                 /\ auth.method = "cookie" =>
                      authCall'.outcome.error.kind = "AuthenticationError"]_vars

\* C17 witness: api-key with no key configured: authenticate() returned true
\* and nothing was ever sent.
C17_Witness ==
  /\ auth = Unconfigured(ApiKeyAuth)
  /\ authCall.pc = "returned"
  /\ authenticated
  /\ authCall.sent = 0
  /\ wire.last.at = -1

\* C18: after a 2xx answer whose body is not JSON: on a users/me or token
\* endpoint the call has raised with that attempt and counted no successful
\* request; on any other endpoint it has returned the raw text and counted
\* one successful request.
C18_ParseFailureByEndpoint ==
  \A c \in Slots :
    (Ok(call[c].last.status) /\ call[c].last.body = "text") =>
      IF EndpointIsAuthSensitive(call[c].endpoint)
      THEN /\ call[c].pc = "raised"
           /\ stats.successfulRequests = call[c].okAtStart
      ELSE /\ call[c].pc = "returned"
           /\ call[c].outcome.value.type = "text"
           /\ stats.successfulRequests = call[c].okAtStart + 1

\* C19: after a 2xx answer with an empty body, to an attempt or to the
\* fallback, the call has returned null with that answer, with one successful
\* request counted and no failed one.
C19_EmptyBodyIsNull ==
  \A c \in Slots :
    (\/ Ok(call[c].last.status) /\ call[c].last.body = "empty"
     \/ Ok(call[c].fallbackResponse.status) /\ call[c].fallbackResponse.body.kind = "empty") =>
      /\ call[c].pc = "returned"
      /\ call[c].outcome = Returned(NullValue)
      /\ stats.successfulRequests = call[c].okAtStart + 1
      /\ stats.failedRequests = call[c].failedAtStart

\* C19 witness: the second attempt of a call on users/me was answered 2xx with
\* an empty body and the call returned null.
C19_Witness ==
  \E c \in Slots :
    /\ call[c].attempts = 2
    /\ Ok(call[c].last.status) /\ call[c].last.body = "empty"
    /\ call[c].endpoint = UsersMeEndpoint
    /\ call[c].outcome = Returned(NullValue)

\* C20: the average response time is the arithmetic mean of the durations of
\* the calls that returned: the average times the number of successful
\* requests is the sum of those durations, whatever calls failed in between.
C20_AverageIsMean ==
  stats.averageResponseTime.num * stats.successfulRequests
    = durations * stats.averageResponseTime.den

\* C20 witness: two calls have returned and one has raised, and the mean of the
\* two durations is not a whole number of milliseconds.
C20_Witness ==
  /\ stats.successfulRequests = 2
  /\ stats.failedRequests = 1
  /\ stats.averageResponseTime.den = 2

\* The values request() returns: a parsed body, a raw text, or null.
IsValue(outcome) == outcome.kind = "value" /\ outcome.value.type \in {"json", "text", "null"}

\* C21: every request() call ends, given that timers fire and fetches settle;
\* a call that ended has returned a parsed body, a raw text or null, or has
\* raised an error; and no call makes more attempts than its budget.
C21_NoSilentFailure ==
  /\ [](\A c \in Slots :
          /\ call[c].attempts <= Max(call[c].maxAttempts, 0)
          /\ call[c].pc = "returned" => IsValue(call[c].outcome)
          /\ call[c].pc = "raised" =>
               (call[c].outcome.kind = "error" /\ call[c].outcome.error.isError))
  /\ \A c \in Slots : InFlight(c) ~> Ended(c)

\* C21 witness: a call has raised after its third attempt was answered 404 and
\* the fallback of that attempt failed.
C21_Witness ==
  \E c \in Slots :
    /\ call[c].pc = "raised"
    /\ call[c].attempts = 3
    /\ call[c].fallbacks >= 1
    /\ call[c].last.status = 404

\* The hosts that are localhost, a loopback address (127.0.0.0/8, ::1) or an
\* address of a private range (10.0.0.0/8, 172.16.0.0/12, 192.168.0.0/16).
IsLocalHost(host) ==
  LET l == host.labels IN
  CASE host.kind = "name" -> Lower(l[1]) = "localhost" /\ Len(l) = 1
    [] host.kind = "ipv6" -> l = <<"[::1]">>
    [] OTHER -> \/ l[1] \in {"127", "10"}
                \/ l[1] = "192" /\ l[2] = "168"
                \/ l[1] = "172" /\ l[2] \in {"16", "31"}

PrivateUrlError == PlainError(<<"Private/localhost URLs not allowed in production">>)

\* C22: a constructor call with an http or https base URL whose host is
\* localhost, a loopback or a private address has raised the private-URL error
\* in production, leaving no base URL, and has succeeded otherwise; a
\* constructor call with a URL of another scheme has raised in both modes.
C22_PrivateUrlRejected ==
  LET url == construction.url IN
  (construction.pc # "none" /\ url.kind = "url") =>
    IF url.scheme \notin {"http", "https"} THEN construction.pc = "raised"
    ELSE IF IsLocalHost(url.host)
    THEN IF construction.isProduction
         THEN construction.pc = "raised" /\ construction.error = PrivateUrlError /\ baseUrl = NoUrl
         ELSE construction.pc = "constructed"
    ELSE TRUE

\* C23: the base URL of a constructed client has no trailing slash, the API URL
\* is the base URL followed by /wp-json/wp/v2, and both are what the
\* constructor made of the URL given, whatever was called since.
C23_BaseUrlNormalised ==
  IsConstructed =>
    /\ baseUrl.path = <<>> \/ baseUrl.path[Len(baseUrl.path)] # ""
    /\ DOMAIN baseUrl = {"origin", "path"}
    /\ apiUrl = [origin |-> baseUrl.origin, path |-> baseUrl.path \o ApiPrefix]
    /\ baseUrl = BaseUrlOf(validateAndSanitizeUrl(construction.url, construction.isProduction).value)

\* C24: a step of a request() call (one that changes the call's record) leaves
\* authenticated, jwtToken, the auth descriptor, timeout and maxRetries as they
\* were, whether the call goes on, returns or raises; and jwtToken is given a
\* value other than null only by the authenticate() of the jwt method, when
\* the token endpoint has answered.
C24_RequestFrame ==
  [][/\ call' # call => UNCHANGED <<authenticated, jwtToken, auth, timeout, maxRetries>>
     /\ (jwtToken' # jwtToken /\ jwtToken' # None) =>
          (auth.method = "jwt" /\ authCall.pc = "token" /\ authCall'.pc = "returned")]_vars

\* C24 witness: a request() has raised on a client that holds a token and is
\* authenticated.
C24_Witness ==
  /\ call[2].pc = "raised"
  /\ call[2].last.status = 401
  /\ jwtToken = "abc"
  /\ authenticated

\* C25: every attempt that leaves carries the authentication header derived
\* from the auth descriptor and the jwtToken of the moment it leaves; so an
\* attempt that leaves after disconnect() carries no Bearer token.
C25_FreshAuthHeader ==
  [][\A c \in Slots :
       call'[c].attempts = call[c].attempts + 1 =>
         call'[c].authorization = addAuthHeaders(auth', jwtToken')]_vars

InFlightCalls == Cardinality({c \in Slots : InFlight(c)})

C27_AuthenticatedOnlyAfterSuccess ==
  /\ authCall.pc = "idle" => ~authenticated
  /\ authCall.pc = "raised" => ~authenticated

\* C28: every HTTP request that leaves, an attempt, an index.php fallback or
\* the token request of authenticate(), leaves no less than requestInterval
\* after the request before it and stamps lastRequestTime with its time.
C28_EveryRequestPaced ==
  [][(\/ \E c \in Slots : \/ call'[c].attempts = call[c].attempts + 1
                          \/ call'[c].fallbacks = call[c].fallbacks + 1
      \/ authCall'.pc = "token" /\ authCall.pc # "token") =>
       (lastRequestTime' = now' /\ now' - lastRequestTime >= requestInterval)]_vars

C30_ToolsBoundAndTypeForced ==
  /\ postTools.pc # "raised"
  /\ postTools.pc = "listed" =>
       /\ Len(postTools.tools) = Len(postToolDefinitions)
       /\ \A i \in 1..Len(postToolDefinitions) :
            /\ postTools.tools[i].name = postToolDefinitions[i]
            /\ postTools.tools[i].handler # "none"
            /\ \A j \in 1..Len(postToolDefinitions) :
                 postTools.tools[i].handler = postTools.tools[j].handler => i = j
  /\ \A forced \in {<<"wp_list_verhalen", "verhalen">>, <<"wp_list_reviews", "review">>} :
       postTools.invoked.tool = forced[1] =>
         /\ postTools.invoked.listed
         /\ postTools.invoked.received.post_type = forced[2]
         /\ postTools.invoked.target = "client.getPosts"
         /\ postTools.invoked.postType = forced[2]

\* C30 witness: the wp_list_reviews handler was called with post_type
\* "verhalen" and has listed the reviews.
C30_Witness ==
  /\ postTools.invoked.tool = "wp_list_reviews"
  /\ postTools.invoked.given.post_type = "verhalen"
  /\ postTools.invoked.postType = "review"

====
